---- MODULE Spec2Model ----
(***************************************************************************)
(* Control core of the bottom dashboard: the multi-key sequence recognizer *)
(* (src/src/app/event.rs) and the message reducer / global input router    *)
(* of AppState (src/src/app.rs).                                           *)
(*                                                                         *)
(* Two specifications share this module:                                   *)
(*   SpecKey  - one MultiKey recognizer driven by inputs and elapsing time *)
(*   Spec     - AppState driven by posted messages, routed events, the     *)
(*              reducer and the interrupt handler                          *)
(***************************************************************************)
EXTENDS Integers, Sequences, FiniteSets, TLC

VARIABLES
    \* ---- MultiKey (event.rs) ----
    state,            \* MultiKey.state : MultiKeyState
    pattern,          \* MultiKey.pattern : Vec<char>
    timeout,          \* MultiKey.timeout : Duration
    now,              \* the monotonic clock read by Instant::now() / elapsed()
    hist,             \* log of the calls to MultiKey::input made so far
    \* ---- AppState (app.rs) ----
    data_collection,  \* AppState.data_collection (live snapshot)
    frozen_state,     \* AppState.frozen_state
    current_screen,   \* AppState.current_screen
    terminator,       \* AppState.terminator (shared AtomicBool)
    messages,         \* the Vec<AppMessages> handed to global_event_handler
    clock,            \* wall clock of the data points
    toggles,          \* number of ToggleFreeze messages applied so far
    last              \* the operation that produced the current state

keyVars == <<state, pattern, timeout, now, hist>>
appVars == <<data_collection, frozen_state, current_screen, terminator,
             messages, clock, toggles, last>>
vars == <<state, pattern, timeout, now, hist, data_collection, frozen_state,
          current_screen, terminator, messages, clock, toggles, last>>

----------------------------------------------------------------------------
(* Bounds of the model *)

MaxLen == 3
MaxTimeout == 2
MaxTime == 4
MaxInputs == 4
MaxClock == 2
MaxQueue == 2

Chars == {"g", "x"}

Patterns == UNION {[1..n -> Chars] : n \in 0..MaxLen}

----------------------------------------------------------------------------
(* MultiKey : event.rs *)

Idle == [tag |-> "Idle"]

Waiting(trigger_instant, checked_index) ==
    [tag |-> "Waiting", trigger_instant |-> trigger_instant,
     checked_index |-> checked_index]

\* Vec::get with a 0-based index: <<x>> is Some(x), <<>> is None
get(pat, k) == IF k < Len(pat) THEN <<pat[k + 1]>> ELSE <<>>

\* Vec::first
first(pat) == get(pat, 0)

\* MultiKey::register
register(pat, to) == [state |-> Idle, pattern |-> pat, timeout |-> to]

\* MultiKey::reset
reset == Idle

\* Instant::elapsed at clock reading t
elapsed(trigger_instant, t) == t - trigger_instant

\* variant of timed_out: a state exactly as old as the timeout counts as expired
timed_out_Inclusive(trigger_instant, t, to) == elapsed(trigger_instant, t) >= to

\* the timeout test of the Waiting arm
timed_out(trigger_instant, t, to) == elapsed(trigger_instant, t) > to

\* variant of input_Idle: the first match is recorded as index 1
input_Idle_OneBased(pat, c, t) ==
    IF first(pat) # <<>> /\ first(pat)[1] = c
    THEN [state |-> Waiting(t, 1), result |-> "Accepted"]
    ELSE [state |-> Idle, result |-> "Rejected"]

\* the Idle arm of MultiKey::input
input_Idle(pat, c, t) ==
    IF first(pat) # <<>> /\ first(pat)[1] = c
    THEN [state |-> Waiting(t, 0), result |-> "Accepted"]
    ELSE [state |-> Idle, result |-> "Rejected"]

\* the arm taken when the incoming char equals pattern[checked_index + 1]
input_Advance(st, pat) ==
    LET checked_index == st.checked_index + 1 IN
    IF checked_index = Len(pat) - 1
    THEN [state |-> reset, result |-> "Completed"]
    ELSE [state |-> Waiting(st.trigger_instant, checked_index),
          result |-> "Accepted"]

\* variant of input_Waiting: a mismatch is Rejected without resetting
input_Waiting_NoReset(st, pat, c) ==
    LET next == get(pat, st.checked_index + 1) IN
    IF next # <<>>
    THEN IF next[1] = c
         THEN input_Advance(st, pat)
         ELSE [state |-> st, result |-> "Rejected"]
    ELSE [state |-> reset, result |-> "Rejected"]

\* variant of input_Waiting: a mismatching char is retried as a fresh start
input_Waiting_Retry(st, pat, c) ==
    LET next == get(pat, st.checked_index + 1) IN
    IF next # <<>> /\ next[1] = c
    THEN input_Advance(st, pat)
    ELSE input_Idle(pat, c, st.trigger_instant)

\* the Waiting arm of MultiKey::input when the state has not timed out
input_Waiting(st, pat, c) ==
    LET next == get(pat, st.checked_index + 1) IN
    IF next # <<>>
    THEN IF next[1] = c
         THEN input_Advance(st, pat)
         ELSE [state |-> reset, result |-> "Rejected"]
    ELSE [state |-> reset, result |-> "Rejected"]

\* variant of input: a partial match restarts the timer
input_Refresh(st, pat, to, c, t) ==
    IF st.tag = "Idle"
    THEN LET r == input_Idle(pat, c, t) IN
         [state |-> r.state, result |-> r.result, calls |-> 1]
    ELSE IF timed_out(st.trigger_instant, t, to)
         THEN LET r == input_Idle(pat, c, t) IN
              [state |-> r.state, result |-> r.result, calls |-> 2]
         ELSE LET r == input_Waiting(st, pat, c) IN
              [state |-> IF r.state.tag = "Waiting"
                         THEN Waiting(t, r.state.checked_index)
                         ELSE r.state,
               result |-> r.result, calls |-> 1]

\* variant of input: on a timeout the timer is restarted in place of the
\* reset, so the retry runs the Waiting arm
input_RetryWaiting(st, pat, to, c, t) ==
    IF st.tag = "Idle"
    THEN LET r == input_Idle(pat, c, t) IN
         [state |-> r.state, result |-> r.result, calls |-> 1]
    ELSE IF timed_out(st.trigger_instant, t, to)
         THEN LET r == input_Waiting(Waiting(t, 0), pat, c) IN
              [state |-> r.state, result |-> r.result, calls |-> 2]
         ELSE LET r == input_Waiting(st, pat, c) IN
              [state |-> r.state, result |-> r.result, calls |-> 1]

\* MultiKey::input; calls counts the evaluations of the body
RECURSIVE input(_, _, _, _, _)
input(st, pat, to, c, t) ==
    IF st.tag = "Idle"
    THEN LET r == input_Idle(pat, c, t) IN
         [state |-> r.state, result |-> r.result, calls |-> 1]
    ELSE IF timed_out(st.trigger_instant, t, to)
         THEN LET r == input(reset, pat, to, c, t) IN
              [state |-> r.state, result |-> r.result, calls |-> r.calls + 1]
         ELSE LET r == input_Waiting(st, pat, c) IN
              [state |-> r.state, result |-> r.result, calls |-> 1]

----------------------------------------------------------------------------
(* The recognizer as a state machine *)

KeyIdleApp ==
    /\ data_collection = {}
    /\ frozen_state = [tag |-> "NotFrozen"]
    /\ current_screen = "Main"
    /\ terminator = FALSE
    /\ messages = <<>>
    /\ clock = 0
    /\ toggles = 0
    /\ last = [op |-> "new"]

\* MultiKey::register with any pattern and timeout
InitKey ==
    /\ \E pat \in Patterns, to \in 0..MaxTimeout :
          LET mk == register(pat, to) IN
          /\ state = mk.state
          /\ pattern = mk.pattern
          /\ timeout = mk.timeout
    /\ now = 0
    /\ hist = <<>>
    /\ KeyIdleApp

\* one call of MultiKey::input(c) at the current clock reading
Input(c) ==
    /\ Len(hist) < MaxInputs
    /\ LET r == input(state, pattern, timeout, c, now) IN
       /\ state' = r.state
       /\ hist' = Append(hist, [c |-> c, at |-> now, pre |-> state,
                                result |-> r.result, post |-> r.state,
                                calls |-> r.calls])
    /\ UNCHANGED <<pattern, timeout, now>>
    /\ UNCHANGED appVars

\* time passes between two calls
Tick ==
    /\ now < MaxTime
    /\ now' = now + 1
    /\ UNCHANGED <<state, pattern, timeout, hist>>
    /\ UNCHANGED appVars

NextKey ==
    \/ \E c \in Chars : Input(c)
    \/ Tick

SpecKey == InitKey /\ [][NextKey]_vars

----------------------------------------------------------------------------
(* Properties of the recognizer *)

\* the k-th logged call found the recognizer Waiting and older than the timeout
Expired(k) ==
    /\ hist[k].pre.tag = "Waiting"
    /\ hist[k].at - hist[k].pre.trigger_instant > timeout

\* the k-th logged call found the recognizer Waiting and not older than the timeout
Fresh(k) ==
    /\ hist[k].pre.tag = "Waiting"
    /\ hist[k].at - hist[k].pre.trigger_instant <= timeout

\* the char of the k-th logged call is pattern[checked_index + 1] of its pre-state
MatchesNext(k) ==
    /\ hist[k].pre.checked_index + 1 < Len(pattern)
    /\ pattern[hist[k].pre.checked_index + 2] = hist[k].c

\* the calls k .. k+n-1 feed the n pattern chars in order from Idle, the last
\* one no later than the timeout after the first
FedInTime(k, n) ==
    /\ n >= 1
    /\ k + n - 1 <= Len(hist)
    /\ hist[k].pre = Idle
    /\ \A j \in 1..n : hist[k + j - 1].c = pattern[j]
    /\ hist[k + n - 1].at - hist[k].at <= timeout

\* the verdicts C1 states for such a run
RunCompletes(k, n) ==
    \A j \in 1..n :
        hist[k + j - 1].result = (IF j = n THEN "Completed" ELSE "Accepted")

\* C1: for every non-empty pattern (any length >= 1), feeding the pattern's
\* chars in order from Idle within the timeout returns Accepted for every char
\* but the last and Completed for the last.
C1_PatternCompletes ==
    \A k \in 1..Len(hist) :
        FedInTime(k, Len(pattern)) => RunCompletes(k, Len(pattern))

C3_MismatchRejects ==
    \A k \in 1..Len(hist) :
        (Fresh(k) /\ ~MatchesNext(k)) =>
            /\ hist[k].result = "Rejected"
            /\ hist[k].post = Idle
            /\ (k + 1 <= Len(hist) /\ hist[k + 1].c = pattern[1]) =>
                  hist[k + 1].result = "Accepted"

\* a mismatching char that is the pattern's first char was Rejected, and the
\* same char fed again was Accepted
C3_Witness ==
    \E k \in 1..Len(hist) :
        /\ Fresh(k)
        /\ ~MatchesNext(k)
        /\ hist[k].c = pattern[1]
        /\ hist[k].result = "Rejected"
        /\ k + 1 <= Len(hist)
        /\ hist[k + 1].c = pattern[1]
        /\ hist[k + 1].result = "Accepted"

\* the calls k .. k+n-1 feed the n pattern chars in order from Idle, each no
\* later than the timeout after the one before, the last one later than the
\* timeout after the first
FedLate(k, n) ==
    /\ n >= 1
    /\ k + n - 1 <= Len(hist)
    /\ hist[k].pre = Idle
    /\ \A j \in 1..n : hist[k + j - 1].c = pattern[j]
    /\ \A j \in 2..n : hist[k + j - 1].at - hist[k + j - 2].at <= timeout
    /\ hist[k + n - 1].at - hist[k].at > timeout

\* C15: a partial match keeps the trigger instant: when input advances
\* Waiting(t, i) to Waiting(t', i + 1), t' = t. Hence for a pattern of length
\* >= 3 whose chars are fed in order with every gap within the timeout, the
\* last char is not Completed when it comes later than the timeout after the
\* first.
C15_TimerAnchored ==
    /\ \A k \in 1..Len(hist) :
          (/\ hist[k].pre.tag = "Waiting"
           /\ hist[k].post.tag = "Waiting"
           /\ hist[k].post.checked_index = hist[k].pre.checked_index + 1) =>
              hist[k].post.trigger_instant = hist[k].pre.trigger_instant
    /\ \A k \in 1..Len(hist) :
          (Len(pattern) >= 3 /\ FedLate(k, Len(pattern))) =>
              hist[k + Len(pattern) - 1].result # "Completed"

\* a pattern of three chars was fed in order, every gap within the timeout,
\* the second char advanced the match at a later instant than the first, and
\* the third came too late to complete it
C15_Witness ==
    \E k \in 1..Len(hist) :
        /\ Len(pattern) = 3
        /\ FedLate(k, 3)
        /\ hist[k + 1].result = "Accepted"
        /\ hist[k + 1].at > hist[k].at
        /\ hist[k + 1].post = Waiting(hist[k].at, 1)
        /\ hist[k + 2].result # "Completed"

\* C16: in every reachable state of a recognizer, a Waiting state has an
\* index strictly below the pattern length, so pattern[index], index + 1 and
\* len - 1 are all in range.
C16_IndexInRange ==
    state.tag = "Waiting" =>
        /\ state.checked_index >= 0
        /\ state.checked_index < Len(pattern)
        /\ Len(pattern) - 1 >= 0
        /\ state.trigger_instant <= now

\* the recognizer waits at the highest index a pattern of three chars allows,
\* after time has passed
C16_Witness ==
    /\ state.tag = "Waiting"
    /\ Len(pattern) = 3
    /\ state.checked_index = 1
    /\ state.trigger_instant < now

\* C17: input returns Accepted exactly when it leaves the recognizer Waiting,
\* and Completed or Rejected exactly when it leaves it Idle; the input after
\* a Completed is evaluated from Idle as a fresh start.
C17_ResultMatchesState ==
    /\ state = IF hist = <<>> THEN Idle ELSE hist[Len(hist)].post
    /\ \A k \in 1..Len(hist) :
          /\ hist[k].result = "Accepted" <=> hist[k].post.tag = "Waiting"
          /\ hist[k].result \in {"Completed", "Rejected"} <=>
                hist[k].post = Idle
          /\ (hist[k].result = "Completed" /\ k + 1 <= Len(hist)) =>
                /\ hist[k + 1].pre = Idle
                /\ hist[k + 1].result =
                      IF hist[k + 1].c = pattern[1]
                      THEN "Accepted" ELSE "Rejected"

\* a sequence was Completed and the next input started a fresh match
C17_Witness ==
    \E k \in 1..Len(hist) :
        /\ hist[k].result = "Completed"
        /\ k + 1 <= Len(hist)
        /\ hist[k + 1].result = "Accepted"
        /\ hist[k + 1].post = Waiting(hist[k + 1].at, 0)

\* C18: every call of input ends after at most two evaluations of its body:
\* the second happens exactly when the Waiting state had expired, and it runs
\* the Idle arm, which does not recurse.
C18_AtMostOneRetry ==
    \A k \in 1..Len(hist) :
        /\ hist[k].calls \in {1, 2}
        /\ hist[k].calls = 2 <=> Expired(k)
        /\ hist[k].calls = 2 =>
              /\ hist[k].result \in {"Accepted", "Rejected"}
              /\ hist[k].post \in {Idle, Waiting(hist[k].at, 0)}

\* both outcomes of the retry were seen: an expired state met by a char that
\* restarts the match, and one met by a char that does not
C18_Witness ==
    \E k, m \in 1..Len(hist) :
        /\ hist[k].calls = 2
        /\ hist[k].result = "Accepted"
        /\ hist[m].calls = 2
        /\ hist[m].result = "Rejected"

----------------------------------------------------------------------------
(* AppState : app.rs *)

\* CurrentScreen
Screens == {"Main", "Expanded", "Help", "Delete"}

\* CurrentScreen::default
DefaultScreen == "Main"

\* AppMessages; the payload of Update is the harvested data point (its time),
\* the payloads of the kill messages are not read by the reducer
Msg(kind, payload) == [kind |-> kind, payload |-> payload]

MessageKinds == {"Update", "OpenHelp", "ConfirmKillProcess", "KillProcess",
                 "ToggleFreeze", "Reset", "Clean", "Quit"}

\* the messages that can be built at clock reading t
Messages(t) == {Msg(k, IF k = "Update" THEN t ELSE 0) : k \in MessageKinds}

\* FrozenState
NotFrozen == [tag |-> "NotFrozen"]

Frozen(dc) == [tag |-> "Frozen", data |-> dc]

\* FrozenState::toggle
toggle(fs, dc) == IF fs.tag = "NotFrozen" THEN Frozen(dc) ELSE NotFrozen

\* DataCollection::default
DefaultData == {}

\* DataCollection::eat_data: the harvested point joins the live snapshot
eat_data(dc, new_data) == dc \cup {new_data}

\* constants::STALE_MAX_MILLISECONDS, in clock ticks
STALE_MAX_MILLISECONDS == 1

\* DataCollection::clean_data at clock reading t
clean_data(dc, max_age, t) == {p \in dc : t - p <= max_age}

\* the fields of AppState the reducer works on
App(dc, fs, cs, term) ==
    [data_collection |-> dc, frozen_state |-> fs, current_screen |-> cs,
     terminator |-> term]

\* AppState::new
new == App(DefaultData, NotFrozen, DefaultScreen, FALSE)

\* AppState::set_current_screen
set_current_screen(cs, screen_type) ==
    IF cs = screen_type THEN screen_type ELSE cs

\* the arms of AppState::update: the state after, and the redraw flag
update_Update(app, new_data) ==
    [app |-> [app EXCEPT !.data_collection = eat_data(@, new_data)],
     redraw |-> TRUE]

update_OpenHelp(app) ==
    [app |-> [app EXCEPT !.current_screen = set_current_screen(@, "Help")],
     redraw |-> TRUE]

update_ConfirmKillProcess(app) == [app |-> app, redraw |-> TRUE]

update_KillProcess(app) == [app |-> app, redraw |-> TRUE]

\* variant of update_ToggleFreeze: a second toggle takes a new copy
update_ToggleFreeze_Refreeze(app) ==
    [app |-> [app EXCEPT !.frozen_state = Frozen(app.data_collection)],
     redraw |-> TRUE]

update_ToggleFreeze(app) ==
    [app |-> [app EXCEPT !.frozen_state = toggle(@, app.data_collection)],
     redraw |-> TRUE]

\* variant of update_Clean: the frozen copy is cleaned as well
update_Clean_Frozen(app, t) ==
    [app |-> [app EXCEPT
                !.data_collection = clean_data(@, STALE_MAX_MILLISECONDS, t),
                !.frozen_state =
                    IF @.tag = "Frozen"
                    THEN Frozen(clean_data(@.data, STALE_MAX_MILLISECONDS, t))
                    ELSE @],
     redraw |-> FALSE]

update_Clean(app, t) ==
    [app |-> [app EXCEPT !.data_collection =
                             clean_data(@, STALE_MAX_MILLISECONDS, t)],
     redraw |-> FALSE]

\* variant of update_Quit: the flag is flipped instead of set
update_Quit_Flip(app) ==
    [app |-> [app EXCEPT !.terminator = ~@], redraw |-> FALSE]

update_Quit(app) ==
    [app |-> [app EXCEPT !.terminator = TRUE], redraw |-> FALSE]

\* variant of update_Reset: no redraw is asked for
update_Reset_NoRedraw(app) == [app |-> app, redraw |-> FALSE]

update_Reset(app) == [app |-> app, redraw |-> TRUE]

\* AppState::update at clock reading t
update(app, message, t) ==
    CASE message.kind = "Update" -> update_Update(app, message.payload)
      [] message.kind = "OpenHelp" -> update_OpenHelp(app)
      [] message.kind = "ConfirmKillProcess" -> update_ConfirmKillProcess(app)
      [] message.kind = "KillProcess" -> update_KillProcess(app)
      [] message.kind = "ToggleFreeze" -> update_ToggleFreeze(app)
      [] message.kind = "Clean" -> update_Clean(app, t)
      [] message.kind = "Quit" -> update_Quit(app)
      [] message.kind = "Reset" -> update_Reset(app)

\* variant of load: the read clears the cell (a swap(false))
load_Swap(cell) == [value |-> cell, cell |-> FALSE]

\* AtomicBool::load: the value read, and the cell after the read
load(cell) == [value |-> cell, cell |-> cell]

\* AppState::is_terminated
is_terminated(app) == load(app.terminator).value

\* variant of view_data: the live collection is rendered also while frozen
view_data_Live(app) == app.data_collection

\* the data source AppState::view renders
view_data(app) ==
    IF app.frozen_state.tag = "NotFrozen"
    THEN app.data_collection
    ELSE app.frozen_state.data

\* crossterm KeyModifiers (a set of flags) and the key codes routed here
Modifiers == {"SHIFT", "CONTROL", "ALT"}

KeyCodes == {"q", "Q", "c", "C", "r", "R", "x", "Esc"}

Keyboard(code, modifiers) ==
    [type |-> "Keyboard", code |-> code, modifiers |-> modifiers]

Mouse == [type |-> "Mouse"]

Events ==
    {Keyboard(k, m) : k \in KeyCodes, m \in SUBSET Modifiers} \cup {Mouse}

\* variant of on_quit: the event is captured but no message is pushed
on_quit_NoPush(msgs) == [messages |-> msgs, status |-> "Captured"]

\* on_quit of global_event_handler
on_quit(msgs) ==
    [messages |-> Append(msgs, Msg("Quit", 0)), status |-> "Captured"]

\* the arm of global_event_handler for a key without modifiers
handle_plain(code, msgs) ==
    IF code \in {"q", "Q"}
    THEN on_quit(msgs)
    ELSE [messages |-> msgs, status |-> "Ignored"]

\* variant of handle_control: only the lower-case letters are shortcuts
handle_control_LowerOnly(code, msgs) ==
    IF code = "c"
    THEN [messages |-> Append(msgs, Msg("Quit", 0)), status |-> "Captured"]
    ELSE IF code = "r"
         THEN [messages |-> Append(msgs, Msg("Reset", 0)),
               status |-> "Captured"]
         ELSE [messages |-> msgs, status |-> "Ignored"]

\* variant of handle_control: Reset is pushed but the event is not captured
handle_control_ResetIgnored(code, msgs) ==
    IF code \in {"c", "C"}
    THEN on_quit(msgs)
    ELSE IF code \in {"r", "R"}
         THEN [messages |-> Append(msgs, Msg("Reset", 0)),
               status |-> "Ignored"]
         ELSE [messages |-> msgs, status |-> "Ignored"]

\* the arm of global_event_handler for a key with exactly CONTROL
handle_control(code, msgs) ==
    IF code \in {"c", "C"}
    THEN on_quit(msgs)
    ELSE IF code \in {"r", "R"}
         THEN [messages |-> Append(msgs, Msg("Reset", 0)),
               status |-> "Captured"]
         ELSE [messages |-> msgs, status |-> "Ignored"]

\* variant of global_event_handler: the control table applies whenever the
\* modifiers contain CONTROL
global_event_handler_Contains(event, msgs) ==
    IF event.type = "Keyboard"
    THEN IF event.modifiers = {}
         THEN handle_plain(event.code, msgs)
         ELSE IF "CONTROL" \in event.modifiers
              THEN handle_control(event.code, msgs)
              ELSE [messages |-> msgs, status |-> "Ignored"]
    ELSE [messages |-> msgs, status |-> "Ignored"]

\* AppState::global_event_handler
global_event_handler(event, msgs) ==
    IF event.type = "Keyboard"
    THEN IF event.modifiers = {}
         THEN handle_plain(event.code, msgs)
         ELSE IF event.modifiers = {"CONTROL"}
              THEN handle_control(event.code, msgs)
              ELSE [messages |-> msgs, status |-> "Ignored"]
    ELSE [messages |-> msgs, status |-> "Ignored"]

----------------------------------------------------------------------------
(* The application as a state machine *)

app == App(data_collection, frozen_state, current_screen, terminator)

AppIdleKey ==
    /\ state = Idle
    /\ pattern = <<>>
    /\ timeout = 0
    /\ now = 0
    /\ hist = <<>>

\* AppState::new
Init ==
    /\ data_collection = new.data_collection
    /\ frozen_state = new.frozen_state
    /\ current_screen = new.current_screen
    /\ terminator = new.terminator
    /\ messages = <<>>
    /\ clock = 0
    /\ toggles = 0
    /\ last = [op |-> "new"]
    /\ AppIdleKey

\* the reducer applied to message m
Apply(m) ==
    LET r == update(app, m, clock) IN
    /\ data_collection' = r.app.data_collection
    /\ frozen_state' = r.app.frozen_state
    /\ current_screen' = r.app.current_screen
    /\ terminator' = r.app.terminator
    /\ toggles' = IF m.kind = "ToggleFreeze" THEN (toggles + 1) % 2 ELSE toggles
    /\ last' = [op |-> "update", msg |-> m, ret |-> r.redraw]

\* update called with a message of the harvester, the clean timer or a widget
Deliver(m) ==
    /\ Apply(m)
    /\ UNCHANGED <<messages, clock>>
    /\ UNCHANGED keyVars

\* update called with the oldest message the event handler emitted
Drain ==
    /\ messages # <<>>
    /\ Apply(Head(messages))
    /\ messages' = Tail(messages)
    /\ UNCHANGED clock
    /\ UNCHANGED keyVars

\* global_event_handler called with an event and the pending message list
Route(event) ==
    /\ Len(messages) < MaxQueue
    /\ LET r == global_event_handler(event, messages) IN
       /\ messages' = r.messages
       /\ last' = [op |-> "handler", event |-> event, status |-> r.status]
    /\ UNCHANGED <<data_collection, frozen_state, current_screen, terminator,
                   clock, toggles>>
    /\ UNCHANGED keyVars

\* the ctrlc handler installed by register_terminator
Interrupt ==
    /\ terminator' = TRUE
    /\ last' = [op |-> "interrupt"]
    /\ UNCHANGED <<data_collection, frozen_state, current_screen, messages,
                   clock, toggles>>
    /\ UNCHANGED keyVars

\* the main loop polls is_terminated
IsTerminated ==
    /\ last' = [op |-> "is_terminated", ret |-> is_terminated(app)]
    /\ terminator' = load(terminator).cell
    /\ UNCHANGED <<data_collection, frozen_state, current_screen,
                   messages, clock, toggles>>
    /\ UNCHANGED keyVars

\* view builds the widget tree from the effective data source
View ==
    /\ last' = [op |-> "view", data |-> view_data(app)]
    /\ UNCHANGED <<data_collection, frozen_state, current_screen, terminator,
                   messages, clock, toggles>>
    /\ UNCHANGED keyVars

\* time passes
ClockTick ==
    /\ clock < MaxClock
    /\ clock' = clock + 1
    /\ last' = [op |-> "tick"]
    /\ UNCHANGED <<data_collection, frozen_state, current_screen, terminator,
                   messages, toggles>>
    /\ UNCHANGED keyVars

Next ==
    \/ \E m \in Messages(clock) : Deliver(m)
    \/ Drain
    \/ \E event \in Events : Route(event)
    \/ Interrupt
    \/ IsTerminated
    \/ View
    \/ ClockTick

Spec == Init /\ [][Next]_vars

----------------------------------------------------------------------------
(* Properties of the application *)

\* the step is a call of update with a message of the given kind
Updated(kind) == last'.op = "update" /\ last'.msg.kind = kind

\* the step is a call of global_event_handler with the given event
Routed(event) == last'.op = "handler" /\ last'.event = event

\* the step is a call of global_event_handler with some key whose only
\* modifier is CONTROL
RoutedControl ==
    /\ last'.op = "handler"
    /\ last'.event.type = "Keyboard"
    /\ last'.event.modifiers = {"CONTROL"}

\* the handler captured the event and pushed exactly the message of this kind
Pushed(kind) ==
    /\ last'.status = "Captured"
    /\ messages' = Append(messages, Msg(kind, 0))

\* the handler ignored the event and pushed nothing
NothingPushed ==
    /\ last'.status = "Ignored"
    /\ messages' = messages

\* C4: update returns true for Update, OpenHelp, ConfirmKillProcess,
\* KillProcess, ToggleFreeze and Reset, and false exactly for Clean and Quit.
C4_RedrawFlag ==
    last.op = "update" =>
        /\ last.msg.kind \in {"Update", "OpenHelp", "ConfirmKillProcess",
                              "KillProcess", "ToggleFreeze", "Reset"}
              => last.ret = TRUE
        /\ last.ret = FALSE <=> last.msg.kind \in {"Clean", "Quit"}

\* Clean was applied, and reported no redraw, to a frozen and terminated state
C4_Witness ==
    /\ last.op = "update"
    /\ last.msg.kind = "Clean"
    /\ last.ret = FALSE
    /\ frozen_state.tag = "Frozen"
    /\ terminator

\* C5: the termination flag starts false and, once set by update(Quit) or by
\* the interrupt handler, is_terminated() stays true whatever is applied next.
C5_TerminationMonotonic ==
    /\ ~is_terminated(app)
    /\ [][is_terminated(app) => is_terminated(app)']_vars

\* a message other than Quit was applied to a state already terminated
C5_Witness ==
    /\ last.op = "update"
    /\ last.msg.kind = "Reset"
    /\ is_terminated(app)

\* C6: after update(OpenHelp), applied in any screen, the active screen is
\* Help.
C6_OpenHelpShowsHelp ==
    (last.op = "update" /\ last.msg.kind = "OpenHelp") =>
        current_screen = "Help"

\* C7: a key event 'q' without modifiers is Captured and appends exactly one
\* message, a Quit, to the message list, in any application state.
C7_PlainQQuits ==
    [][Routed(Keyboard("q", {})) => Pushed("Quit")]_vars

\* 'q' was routed with an empty list, which now holds exactly one Quit
C7_Witness ==
    /\ last.op = "handler"
    /\ last.event = Keyboard("q", {})
    /\ last.status = "Captured"
    /\ messages = <<Msg("Quit", 0)>>

\* C8 as stated: with the control modifier, 'r' is Captured with one Reset
\* appended, 'c' is Captured with one Quit appended, and every other key is
\* Ignored with nothing appended.
C8_ControlTable_Original ==
    [][RoutedControl =>
         CASE last'.event.code = "r" -> Pushed("Reset")
           [] last'.event.code = "c" -> Pushed("Quit")
           [] OTHER -> NothingPushed]_vars

\* C8 as amended: with control as the only modifier, 'r' and 'R' are Captured
\* with one Reset appended, 'c' and 'C' are Captured with one Quit appended,
\* and every other key is Ignored with nothing appended.
C8_ControlTable ==
    [][RoutedControl =>
         CASE last'.event.code \in {"r", "R"} -> Pushed("Reset")
           [] last'.event.code \in {"c", "C"} -> Pushed("Quit")
           [] OTHER -> NothingPushed]_vars

\* control+'R' was routed with an empty list, which now holds one Reset
C8_Witness ==
    /\ last.op = "handler"
    /\ last.event = Keyboard("R", {"CONTROL"})
    /\ last.status = "Captured"
    /\ messages = <<Msg("Reset", 0)>>

\* C9: update(Clean) changes neither the active screen, nor the frozen state
\* (its occupancy and the contents of a frozen copy), nor the termination
\* flag; only the live data collection may change.
C9_CleanFrame ==
    [][Updated("Clean") =>
         /\ current_screen' = current_screen
         /\ frozen_state' = frozen_state
         /\ frozen_state'.tag = frozen_state.tag
         /\ terminator' = terminator]_vars

\* Clean was applied while frozen, and the frozen copy still holds a data
\* point that has been cleaned out of the live collection
C9_Witness ==
    /\ last.op = "update"
    /\ last.msg.kind = "Clean"
    /\ frozen_state.tag = "Frozen"
    /\ frozen_state.data \ data_collection # {}

\* C10: ToggleFreeze flips the occupancy of the frozen state, so it is Frozen
\* exactly after an odd number of toggles whatever Update and Clean messages
\* came in between, and a freeze holds the live snapshot of that instant.
C10_ToggleFlips ==
    /\ (frozen_state.tag = "Frozen") <=> (toggles = 1)
    /\ (last.op = "update" /\ last.msg.kind = "ToggleFreeze") =>
          IF frozen_state.tag = "Frozen"
          THEN frozen_state = Frozen(data_collection)
          ELSE frozen_state = NotFrozen

\* a second ToggleFreeze thawed a state that had been frozen, with data
\* ingested and cleaned along the way
C10_Witness ==
    /\ last.op = "update"
    /\ last.msg.kind = "ToggleFreeze"
    /\ frozen_state = NotFrozen
    /\ toggles = 0
    /\ data_collection # {}
    /\ clock \notin data_collection

\* C11: after update(Quit), applied in any state, is_terminated() returns
\* true; is_terminated() itself changes neither the termination flag nor any
\* other application state, however often it is called.
C11_QuitTerminates ==
    [][/\ Updated("Quit") => is_terminated(app)'
       /\ last'.op = "is_terminated" =>
             /\ last'.ret = terminator
             /\ terminator' = terminator
             /\ data_collection' = data_collection
             /\ frozen_state' = frozen_state
             /\ current_screen' = current_screen
             /\ messages' = messages]_vars

\* is_terminated() was called on a terminated application holding data and a
\* frozen copy, returned true, and the flag is still set
C11_Witness ==
    /\ last.op = "is_terminated"
    /\ last.ret = TRUE
    /\ terminator
    /\ frozen_state.tag = "Frozen"
    /\ data_collection # {}

\* C12: while Frozen, an Update message (and every message but ToggleFreeze)
\* leaves the frozen copy as it was taken, and view reads that copy; while
\* NotFrozen view reads the live snapshot.
C12_FrozenView ==
    [][/\ Updated("Update") => frozen_state' = frozen_state
       /\ (frozen_state.tag = "Frozen" /\ ~Updated("ToggleFreeze")) =>
             frozen_state' = frozen_state
       /\ last'.op = "view" =>
             last'.data = IF frozen_state.tag = "Frozen"
                          THEN frozen_state.data
                          ELSE data_collection]_vars

\* view rendered the frozen copy while the live snapshot had since ingested a
\* data point the copy does not hold
C12_Witness ==
    /\ last.op = "view"
    /\ frozen_state.tag = "Frozen"
    /\ last.data = frozen_state.data
    /\ data_collection \ frozen_state.data # {}

\* C19: for every event and every application state, global_event_handler
\* returns Captured exactly when it appended one message and Ignored exactly
\* when it left the list unchanged; it never removes or reorders messages and
\* never changes the active screen, the frozen state, the data collection or
\* the termination flag.
C19_HandlerFrame ==
    [][last'.op = "handler" =>
         /\ last'.status \in {"Captured", "Ignored"}
         /\ last'.status = "Captured" <=>
               /\ Len(messages') = Len(messages) + 1
               /\ SubSeq(messages', 1, Len(messages)) = messages
         /\ last'.status = "Ignored" <=> messages' = messages
         /\ Len(messages') >= Len(messages)
         /\ SubSeq(messages', 1, Len(messages)) = messages
         /\ current_screen' = current_screen
         /\ frozen_state' = frozen_state
         /\ data_collection' = data_collection
         /\ terminator' = terminator]_vars

\* an event was captured while a message was pending: the list holds the old
\* message first and the new one after it, and the application still has its
\* data and its frozen copy
C19_Witness ==
    /\ last.op = "handler"
    /\ last.status = "Captured"
    /\ Len(messages) = 2
    /\ messages[1].kind = "Reset"
    /\ messages[2].kind = "Quit"
    /\ frozen_state.tag = "Frozen"
    /\ data_collection # {}

\* C20: a keyboard event whose modifiers are neither empty nor exactly
\* {CONTROL} is Ignored with no message appended, whatever its key.
C20_OtherModifiersIgnored ==
    [][(/\ last'.op = "handler"
        /\ last'.event.type = "Keyboard"
        /\ last'.event.modifiers \notin {{}, {"CONTROL"}}) =>
           NothingPushed]_vars

\* control+shift+'c' was routed and Ignored, and the list is still empty
C20_Witness ==
    /\ last.op = "handler"
    /\ last.event = Keyboard("c", {"CONTROL", "SHIFT"})
    /\ last.status = "Ignored"
    /\ messages = <<>>

----------------------------------------------------------------------------
(* The router beside a registered recognizer *)

\* a recognizer has been registered (InitKey); key events are routed through
\* global_event_handler as the code routes them, the emitted messages are
\* applied, and time passes
NextRouted ==
    \/ \E event \in Events : Route(event)
    \/ Drain
    \/ Tick

SpecRouted == InitKey /\ [][NextRouted]_vars

\* the step routes an unmodified key whose char the recognizers know
RoutedChar ==
    /\ last'.op = "handler"
    /\ last'.event.type = "Keyboard"
    /\ last'.event.modifiers = {}
    /\ last'.event.code \in Chars

\* C13: a routed keyboard char is fed to every registered recognizer, and
\* whenever a recognizer returns Completed for it the event is Captured and
\* the recognizer's message is in the message list.
C13_RouterFeedsRecognizers ==
    [][RoutedChar =>
         LET r == input(state, pattern, timeout, last'.event.code, now) IN
         /\ state' = r.state
         /\ r.result = "Completed" =>
               /\ last'.status = "Captured"
               /\ Len(messages') > Len(messages)]_vars

\* C14: after update(Reset), applied in any reachable state, the data
\* collection and the active screen have their default values.
C14_ResetRestoresDefaults ==
    (last.op = "update" /\ last.msg.kind = "Reset") =>
        /\ data_collection = DefaultData
        /\ current_screen = DefaultScreen

====
